---- MODULE Spec2Model ----
(***************************************************************************)
(* Model of src/app.py: the batch loop of main() and process_file(), the   *)
(* two-stage conversion (MarkItDown, then pdfplumber for ".pdf" only), the *)
(* temporary-file lifecycle and the size comparison.                       *)
(*                                                                         *)
(* Strings are sequences of one-character strings, so that splitext,       *)
(* lower, strip, join and the UTF-8 length are computed, not assumed.      *)
(* The streamlit calls (st.success, st.error, ...) are taken to return     *)
(* normally; what they show is recorded in ui.                             *)
(***************************************************************************)
EXTENDS Integers, Sequences, FiniteSets, TLC

\* ------------------------------------------------------------------ bounds
\* Largest number of files in one upload.
MaxFiles == 2
\* Largest number of pages pdfplumber reports for one PDF.
MaxPages == 2

\* ------------------------------------------------------------------ inputs
\* Uploaded files: name and size as streamlit reports them.
Uploads ==
  { [name |-> <<"r", ".", "p", "d", "f">>, size |-> 0],
    [name |-> <<"R", ".", "P", "d", "F">>, size |-> 7],
    [name |-> <<"s", ".", "t", "x", "t">>, size |-> 3],
    [name |-> <<".", "p", "d", "f">>,      size |-> 0] }

\* Texts MarkItDown can return: "", " ", "a", "é".
PrimaryTexts == { <<>>, <<" ">>, <<"a">>, <<"é">> }

\* What page.extract_text() can return: None, "", " ", "a".
PageResults ==
  { [present |-> FALSE, text |-> <<>>],
    [present |-> TRUE,  text |-> <<>>],
    [present |-> TRUE,  text |-> <<" ">>],
    [present |-> TRUE,  text |-> <<"a">>] }

\* str(e) of the exceptions the engines raise.
ExceptionMessages == { "unsupported encoding" }

RECURSIVE SeqsUpTo(_, _)
SeqsUpTo(S, n) ==
  IF n = 0 THEN { <<>> }
  ELSE LET shorter == SeqsUpTo(S, n - 1)
       IN  shorter \cup { Append(s, x) : s \in { t \in shorter : Len(t) = n - 1 }, x \in S }

\* ------------------------------------------------------- string functions
\* os.path.splitext on a name without directory separators: the extension
\* starts at the last dot, unless only dots precede it.
RECURSIVE LastDot(_)
LastDot(s) ==
  IF s = <<>> THEN 0
  ELSE IF s[Len(s)] = "." THEN Len(s)
  ELSE LastDot(SubSeq(s, 1, Len(s) - 1))

SplitExt(s) ==
  LET d == LastDot(s)
  IN  IF d > 0 /\ (\E i \in 1..(d - 1) : s[i] # ".")
      THEN << SubSeq(s, 1, d - 1), SubSeq(s, d, Len(s)) >>
      ELSE << s, <<>> >>

LowerChar(c) ==
  CASE c = "P" -> "p"
    [] c = "D" -> "d"
    [] c = "F" -> "f"
    [] c = "R" -> "r"
    [] OTHER   -> c

\* str.lower()
Lower(s) == [i \in 1..Len(s) |-> LowerChar(s[i])]

IsSpace(c) == c \in { " ", "\n", "\t" }

RECURSIVE LStrip(_)
LStrip(s) ==
  IF s # <<>> /\ IsSpace(s[1]) THEN LStrip(Tail(s)) ELSE s

RECURSIVE RStrip(_)
RStrip(s) ==
  IF s # <<>> /\ IsSpace(s[Len(s)]) THEN RStrip(SubSeq(s, 1, Len(s) - 1)) ELSE s

\* str.strip()
Strip(s) == RStrip(LStrip(s))

\* "\n\n".join(parts)
RECURSIVE Join(_)
Join(parts) ==
  IF parts = <<>> THEN <<>>
  ELSE IF Len(parts) = 1 THEN parts[1]
  ELSE parts[1] \o <<"\n", "\n">> \o Join(Tail(parts))

Utf8Width(c) == IF c = "é" THEN 2 ELSE 1

\* len(text.encode('utf-8'))
RECURSIVE Utf8Len(_)
Utf8Len(s) ==
  IF s = <<>> THEN 0 ELSE Utf8Width(s[1]) + Utf8Len(Tail(s))

\* A bug that renders a missing page text with str(): "None".
PageTextStr(r) == IF r.present THEN r.text ELSE <<"N", "o", "n", "e">>

\* page.extract_text() or ""
PageText(r) == IF r.present THEN r.text ELSE <<>>

\* "\n\n".join([page.extract_text() or "" for page in pdf.pages])
JoinPages(pages) == Join([i \in 1..Len(pages) |-> PageText(pages[i])])

\* A bug that tries the fallback for every file that has an extension.
IsPdfSuffixAny(sfx) == sfx # <<>>

\* suffix == '.pdf'
IsPdfSuffix(sfx) == sfx = <<".", "p", "d", "f">>

\* A bug that leaves out the blank check of the fallback's text.
FallbackSucceededAlways(t) == TRUE

\* A bug that inverts the blank check of the fallback's text.
FallbackSucceededInverted(t) == Strip(t) = <<>>

\* if text_content.strip():
FallbackSucceeded(t) == Strip(t) # <<>>

\* A bug that assigns the message instead of appending it.
AddDiagnosticOverwrite(details, msg) == << msg >>

\* error_details += msg
AddDiagnostic(details, msg) == Append(details, msg)

\* A bug that dedents the fallback block out of the except clause.
NextStageDedented(raised, sfx) == IF IsPdfSuffix(sfx) THEN "fallback" ELSE "render"

\* Where control goes after md_engine.convert: the fallback is nested in the
\* except clause, under the suffix test.
NextStage(raised, sfx) == IF raised /\ IsPdfSuffix(sfx) THEN "fallback" ELSE "render"

\* ------------------------------------------------------------- arithmetic
\* Python's a / b on integers: a quotient, or ZeroDivisionError (ok = FALSE).
\* The quotient is kept exact, as num / den with den > 0.
Div(a, b) ==
  IF b = 0 THEN [ok |-> FALSE, num |-> 0, den |-> 1]
  ELSE [ok |-> TRUE, num |-> a, den |-> b]

Times(q, k) == [ok |-> q.ok, num |-> q.num * k, den |-> q.den]

Zero == [ok |-> TRUE, num |-> 0, den |-> 1]

\* A bug that leaves out the guard on the original size.
SavingsUnguarded(original, converted) == Times(Div(original - converted, original), 100)

\* savings, as process_file computes it.
Savings(original, converted) ==
  IF original > 0 THEN Times(Div(original - converted, original), 100) ELSE Zero

\* ------------------------------------------------------------------ state
NoPath == 0

FallbackNote == " (processed with Fallback Engine)"

VARIABLES
  uploaded_files,       \* main: the upload, in order
  idx,                  \* main: how many files the for loop has taken
  pc,                   \* position in main / process_file
  original_filename,    \* process_file locals ...
  suffix,
  original_size_bytes,
  tmp_file_path,
  text_content,
  conversion_success,
  error_details,
  pdf_pages,            \* what pdfplumber returned, one result per page
  converted_size_bytes,
  savings,
  fs,                   \* temporary files that exist
  ui,                   \* what was shown for the current file
  outcomes,             \* per finished file: its index and what was shown
  created_path,         \* history: the temp file created for the current file
  remove_attempts,      \* history: os.remove calls for the current file
  calls                 \* history: engine calls for the current file

vars == << uploaded_files, idx, pc, original_filename, suffix, original_size_bytes,
           tmp_file_path, text_content, conversion_success, error_details, pdf_pages,
           converted_size_bytes, savings, fs, ui, outcomes, created_path,
           remove_attempts, calls >>

locals == << original_filename, suffix, original_size_bytes, tmp_file_path,
             text_content, conversion_success, error_details, pdf_pages,
             converted_size_bytes, savings >>

Init ==
  /\ uploaded_files \in SeqsUpTo(Uploads, MaxFiles)
  /\ idx = 0
  /\ pc = "main"
  /\ original_filename = <<>>
  /\ suffix = <<>>
  /\ original_size_bytes = 0
  /\ tmp_file_path = NoPath
  /\ text_content = <<>>
  /\ conversion_success = FALSE
  /\ error_details = <<>>
  /\ pdf_pages = <<>>
  /\ converted_size_bytes = 0
  /\ savings = Zero
  /\ fs = {}
  /\ ui = <<>>
  /\ outcomes = <<>>
  /\ created_path = NoPath
  /\ remove_attempts = 0
  /\ calls = <<>>

\* main, the for loop takes the next file; process_file up to the try.
StartDocument ==
  /\ pc = "main"
  /\ idx < Len(uploaded_files)
  /\ idx' = idx + 1
  /\ LET f == uploaded_files[idx + 1]
     IN  /\ original_filename' = f.name
         /\ suffix' = Lower(SplitExt(f.name)[2])
         /\ original_size_bytes' = f.size
  /\ tmp_file_path' = NoPath
  /\ text_content' = <<>>
  /\ conversion_success' = FALSE
  /\ error_details' = <<>>
  /\ pdf_pages' = <<>>
  /\ converted_size_bytes' = 0
  /\ savings' = Zero
  /\ ui' = <<>>
  /\ created_path' = NoPath
  /\ remove_attempts' = 0
  /\ calls' = <<>>
  /\ pc' = "create"
  /\ UNCHANGED << uploaded_files, fs, outcomes >>

\* tempfile.NamedTemporaryFile(delete=False, suffix=suffix): a new, uniquely
\* named file, or an error (no temp directory, no space).
CreateTempFile ==
  /\ pc = "create"
  /\ \/ /\ fs' = fs \cup { idx }
        /\ created_path' = idx
        /\ pc' = "write"
     \/ /\ pc' = "except"
        /\ UNCHANGED << fs, created_path >>
  /\ UNCHANGED << uploaded_files, idx, locals, ui, outcomes, remove_attempts, calls >>

\* tmp_file.write(uploaded_file.getvalue()); tmp_file_path = tmp_file.name.
\* When the write raises, the with block closes the file and the path is
\* never recorded.
WriteTempFile ==
  /\ pc = "write"
  /\ \/ /\ tmp_file_path' = created_path
        /\ pc' = "primary"
     \/ /\ pc' = "except"
        /\ UNCHANGED tmp_file_path
  /\ UNCHANGED << uploaded_files, idx, original_filename, suffix, original_size_bytes,
                  text_content, conversion_success, error_details, pdf_pages,
                  converted_size_bytes, savings, fs, ui, outcomes, created_path,
                  remove_attempts, calls >>

\* Attempt 1: md_engine.convert(tmp_file_path).
PrimaryConvert ==
  /\ pc = "primary"
  /\ \/ \E t \in PrimaryTexts :
          /\ text_content' = t
          /\ conversion_success' = TRUE
          /\ calls' = Append(calls, [engine |-> "primary", raised |-> FALSE, msg |-> ""])
          /\ pc' = NextStage(FALSE, suffix)
          /\ UNCHANGED error_details
     \/ \E m \in ExceptionMessages :
          /\ error_details' = AddDiagnostic(error_details, << "MarkItDown failed: ", m >>)
          /\ calls' = Append(calls, [engine |-> "primary", raised |-> TRUE, msg |-> m])
          /\ pc' = NextStage(TRUE, suffix)
          /\ UNCHANGED << text_content, conversion_success >>
  /\ UNCHANGED << uploaded_files, idx, original_filename, suffix, original_size_bytes,
                  tmp_file_path, pdf_pages, converted_size_bytes, savings, fs, ui,
                  outcomes, created_path, remove_attempts >>

\* Attempt 2: pdfplumber.open(tmp_file_path), the pages' texts joined.
FallbackExtract ==
  /\ pc = "fallback"
  /\ \/ \E pages \in SeqsUpTo(PageResults, MaxPages) :
          LET t == JoinPages(pages)
          IN  /\ pdf_pages' = pages
              /\ text_content' = t
              /\ calls' = Append(calls, [engine |-> "fallback", raised |-> FALSE, msg |-> ""])
              /\ IF FallbackSucceeded(t)
                 THEN /\ conversion_success' = TRUE
                      /\ original_filename' = Append(original_filename, FallbackNote)
                      /\ UNCHANGED error_details
                 ELSE /\ error_details' =
                           AddDiagnostic(error_details,
                                         << "Fallback failed: ", "PDF appears empty." >>)
                      /\ UNCHANGED << conversion_success, original_filename >>
     \/ \E m \in ExceptionMessages :
          /\ error_details' = AddDiagnostic(error_details, << "Fallback failed: ", m >>)
          /\ calls' = Append(calls, [engine |-> "fallback", raised |-> TRUE, msg |-> m])
          /\ UNCHANGED << pdf_pages, text_content, conversion_success, original_filename >>
  /\ pc' = "render"
  /\ UNCHANGED << uploaded_files, idx, suffix, original_size_bytes, tmp_file_path,
                  converted_size_bytes, savings, fs, ui, outcomes, created_path,
                  remove_attempts >>

\* The success path (preview, downloads, size comparison) or the failure path.
Render ==
  /\ pc = "render"
  /\ IF conversion_success
     THEN LET c == Utf8Len(text_content)
              s == Savings(original_size_bytes, c)
          IN  /\ ui' = Append(ui, "success")
              /\ converted_size_bytes' = c
              /\ IF s.ok
                 THEN /\ savings' = s
                      /\ pc' = "finally"
                 ELSE /\ pc' = "except"
                      /\ UNCHANGED savings
     ELSE /\ ui' = Append(ui, "error")
          /\ pc' = "finally"
          /\ UNCHANGED << converted_size_bytes, savings >>
  /\ UNCHANGED << uploaded_files, idx, original_filename, suffix, original_size_bytes,
                  tmp_file_path, text_content, conversion_success, error_details,
                  pdf_pages, fs, outcomes, created_path, remove_attempts, calls >>

\* A bug that lets the error leave process_file and end the loop of main.
SystemErrorPropagates ==
  /\ pc = "except"
  /\ pc' = "aborted"
  /\ UNCHANGED << uploaded_files, idx, locals, fs, ui, outcomes, created_path,
                  remove_attempts, calls >>

\* except Exception: st.error("System Error processing ...").
SystemError ==
  /\ pc = "except"
  /\ ui' = Append(ui, "system_error")
  /\ pc' = "finally"
  /\ UNCHANGED << uploaded_files, idx, locals, fs, outcomes, created_path,
                  remove_attempts, calls >>

\* finally: os.remove(tmp_file_path) when a path was recorded and exists; an
\* error of os.remove is swallowed. process_file returns.
Cleanup ==
  /\ pc = "finally"
  /\ IF tmp_file_path # NoPath /\ tmp_file_path \in fs
     THEN /\ remove_attempts' = remove_attempts + 1
          /\ \/ fs' = fs \ { tmp_file_path }
             \/ UNCHANGED fs
     ELSE UNCHANGED << fs, remove_attempts >>
  /\ outcomes' = Append(outcomes, [doc |-> idx, shown |-> ui[Len(ui)]])
  /\ pc' = "main"
  /\ UNCHANGED << uploaded_files, idx, locals, ui, created_path, calls >>

\* The for loop of main is exhausted (or nothing was uploaded).
Finish ==
  /\ pc = "main"
  /\ idx = Len(uploaded_files)
  /\ pc' = "done"
  /\ UNCHANGED << uploaded_files, idx, locals, fs, ui, outcomes, created_path,
                  remove_attempts, calls >>

Next ==
  \/ StartDocument
  \/ CreateTempFile
  \/ WriteTempFile
  \/ PrimaryConvert
  \/ FallbackExtract
  \/ Render
  \/ SystemError
  \/ Cleanup
  \/ Finish

Spec == Init /\ [][Next]_vars

\* main runs to completion: every enabled step is eventually taken.
FairSpec == Spec /\ WF_vars(Next)

\* ------------------------------------------------ vocabulary of the claims
\* process_file has returned for file idx.
Returned == idx > 0 /\ pc \in { "main", "done" }

\* The extension of the file in hand, as uploaded.
CurrentExt == SplitExt(uploaded_files[idx].name)[2]

\* ".pdf" in any letter case.
PdfAnyCase(ext) ==
  /\ Len(ext) = 4
  /\ ext[1] = "."
  /\ ext[2] \in { "p", "P" }
  /\ ext[3] \in { "d", "D" }
  /\ ext[4] \in { "f", "F" }

PrimaryRaised == \E i \in 1..Len(calls) : calls[i].engine = "primary" /\ calls[i].raised

PrimaryReturned == \E i \in 1..Len(calls) : calls[i].engine = "primary" /\ ~calls[i].raised

FallbackCalled == \E i \in 1..Len(calls) : calls[i].engine = "fallback"

FallbackReturned == \E i \in 1..Len(calls) : calls[i].engine = "fallback" /\ ~calls[i].raised

\* The page texts joined by blank lines, a missing page text counting as "".
Concatenation(pages) ==
  Join([i \in 1..Len(pages) |-> IF pages[i].present THEN pages[i].text ELSE <<>>])

IsBlank(t) == \A i \in 1..Len(t) : IsSpace(t[i])

\* The display name carries the fallback note exactly when the fallback's
\* text was taken.
EngineUsed ==
  IF original_filename # <<>> /\ original_filename[Len(original_filename)] = FallbackNote
  THEN "fallback" ELSE "primary"

\* An engine attempt that failed: it raised, or it is the fallback and its
\* text was blank.
FailedCall(c) == c.raised \/ (c.engine = "fallback" /\ IsBlank(Concatenation(pdf_pages)))

DiagnosticOf(c) ==
  IF c.engine = "primary" THEN << "MarkItDown failed: ", c.msg >>
  ELSE IF c.raised THEN << "Fallback failed: ", c.msg >>
  ELSE << "Fallback failed: ", "PDF appears empty." >>

\* ----------------------------------------------------------------- claims
\* C1: for a file whose extension is not ".pdf" (in any case), once the
\* primary engine has raised, conversion_success is false and stays false,
\* and the fallback engine is neither called nor about to be called.
C1_NonPdfNoFallback ==
  (idx > 0 /\ ~PdfAnyCase(CurrentExt) /\ PrimaryRaised)
    => /\ ~conversion_success
       /\ ~FallbackCalled
       /\ pc # "fallback"

C1_Witness ==
  /\ Returned
  /\ uploaded_files[idx].name = <<".", "p", "d", "f">>
  /\ PrimaryRaised
  /\ ui = << "error" >>

\* C2: for a file whose extension is ".pdf" in any letter case, a raise of
\* the primary engine leads to the fallback engine, and when the fallback
\* returned pages whose concatenation is not blank, the conversion succeeded,
\* the engine used is the fallback and the text is that concatenation.
C2_PdfFallbackSucceeds ==
  (idx > 0 /\ PdfAnyCase(CurrentExt) /\ PrimaryRaised)
    => /\ pc = "fallback" \/ FallbackCalled
       /\ (FallbackReturned /\ ~IsBlank(Concatenation(pdf_pages)))
            => /\ conversion_success
               /\ EngineUsed = "fallback"
               /\ text_content = Concatenation(pdf_pages)

C2_Witness ==
  /\ Returned
  /\ uploaded_files[idx].name = <<"R", ".", "P", "d", "F">>
  /\ PrimaryRaised
  /\ pdf_pages = << [present |-> FALSE, text |-> <<>>], [present |-> TRUE, text |-> <<"a">>] >>
  /\ text_content = << "\n", "\n", "a" >>
  /\ ui = << "success" >>

\* C3 as stated: succeeded if and only if the text is non-empty and an engine
\* returned without raising with non-blank content.
C3_AsStated ==
  Returned =>
    (conversion_success <=>
       /\ text_content # <<>>
       /\ \/ PrimaryReturned /\ ~IsBlank(text_content)
          \/ FallbackReturned /\ ~IsBlank(Concatenation(pdf_pages)))

\* C3 as amended: succeeded if and only if the primary engine returned without
\* raising (whatever its text, empty and blank included) or the fallback
\* engine returned without raising and its concatenated text is not blank.
C3_SucceededIff ==
  conversion_success <=>
    \/ PrimaryReturned
    \/ FallbackReturned /\ ~IsBlank(Concatenation(pdf_pages))

C3_Witness ==
  /\ Returned
  /\ PrimaryReturned
  /\ text_content = <<>>
  /\ conversion_success
  /\ ui = << "success" >>

\* C4: the diagnostics are, in order, one message per failed engine attempt
\* (a blank fallback text counting as a failed attempt): as many messages as
\* failed attempts, none lost, the primary's before the fallback's.
C4_DiagnosticsPerFailure ==
  LET failed == SelectSeq(calls, FailedCall)
  IN  error_details = [i \in 1..Len(failed) |-> DiagnosticOf(failed[i])]

C4_Witness ==
  /\ Returned
  /\ Len(error_details) = 2
  /\ error_details[1][1] = "MarkItDown failed: "
  /\ error_details[2] = << "Fallback failed: ", "PDF appears empty." >>

\* C5: when process_file returns, the temporary file it created is gone.
C5_TempFileAbsent ==
  (Returned /\ created_path # NoPath) => created_path \notin fs

\* C6: for a temporary file that was created, the deletion is attempted
\* exactly once before process_file returns.
C6_ReleaseExactlyOnce ==
  /\ remove_attempts <= 1
  /\ (Returned /\ created_path # NoPath) => remove_attempts = 1

\* C7: main reaches the end of the upload; the files are processed in upload
\* order, each ends in one of the three outcomes, and no file is skipped,
\* however the earlier ones ended.
C7_Order ==
  /\ Len(outcomes) = (IF pc \in { "main", "done" } THEN idx ELSE idx - 1)
  /\ \A i \in 1..Len(outcomes) :
       /\ outcomes[i].doc = i
       /\ outcomes[i].shown \in { "success", "error", "system_error" }
  /\ pc = "done" => Len(outcomes) = Len(uploaded_files)

C7_EveryDocumentProcessed == []C7_Order /\ <>(pc = "done")

C7_Witness ==
  /\ pc = "done"
  /\ Len(outcomes) = 2
  /\ outcomes[1].shown = "system_error"
  /\ outcomes[2].shown = "success"
  /\ 1 \in fs

\* C8 as stated: a conversion that ends without success has the empty text.
C8_AsStated ==
  (Returned /\ ~conversion_success) => text_content = <<>>

\* C8 as amended: a conversion that ends without success has a blank text:
\* the empty string unless the fallback returned, and then the concatenation
\* of its blank page texts, separators and whitespace included.
C8_FailedTextBlank ==
  (Returned /\ ~conversion_success)
    => /\ IsBlank(text_content)
       /\ ~FallbackReturned => text_content = <<>>
       /\ FallbackReturned => text_content = Concatenation(pdf_pages)

C8_Witness ==
  /\ Returned
  /\ ~conversion_success
  /\ FallbackReturned
  /\ text_content = << "\n", "\n", " " >>

\* C9: after a successful conversion the size comparison was computed without
\* a division error; savings is 0 when the original size is 0 and
\* (original - converted) / original * 100 otherwise.
C9_Savings ==
  (idx > 0 /\ conversion_success /\ pc \notin { "primary", "fallback", "render" })
    => /\ pc # "except"
       /\ ui = << "success" >>
       /\ savings.ok /\ savings.den > 0
       /\ original_size_bytes = 0 => savings.num = 0
       /\ original_size_bytes > 0 =>
            savings.num * original_size_bytes
              = (original_size_bytes - converted_size_bytes) * 100 * savings.den

C9_Witness ==
  /\ Returned
  /\ conversion_success
  /\ original_size_bytes = 0
  /\ text_content = << "é" >>
  /\ converted_size_bytes = 2
  /\ savings = Zero

\* C10: the engine calls for one file are the primary engine once, then at
\* most the fallback engine once and only after the primary raised; with the
\* temporary file acquired the primary call is made.
C10_EngineCalls ==
  /\ Len(calls) <= 2
  /\ Len(calls) >= 1 => calls[1].engine = "primary"
  /\ Len(calls) = 2 => calls[2].engine = "fallback" /\ calls[1].raised
  /\ (tmp_file_path # NoPath /\ pc # "primary") => Len(calls) >= 1

C10_Witness ==
  /\ Returned
  /\ Len(calls) = 2
  /\ calls[1].raised
  /\ calls[2].raised

====
